---- MODULE Spec2Model ----
(***************************************************************************)
(* Model of autotranslate/services.py: the two translator services         *)
(* GoSlateTranslatorService and GoogleAPITranslatorService, the backend    *)
(* clients they call, the Python objects they create and return (lists and *)
(* generators, by reference) and a caller that keeps, iterates and mutates *)
(* what it was given.                                                      *)
(*                                                                         *)
(* Environment modelled: an interpreter on which the source runs as        *)
(* written, i.e. assert statements are executed, collections.Iterable and  *)
(* collections.MutableSequence resolve, and the google.cloud imports of    *)
(* GoogleAPITranslatorService.__init__ succeed.  The goslate package is    *)
(* optional (autotranslate.compat yields None when it is missing).         *)
(***************************************************************************)
EXTENDS Integers, Sequences, FiniteSets, TLC

\* ---------------------------------------------------------------- bounds
\* longest accumulator a successful call may produce
MaxAcc == 2
\* how many times the caller iterates one result
MaxIter == 2

\* ------------------------------------------------------------ Python values
\* A str is a sequence of characters.
Hi == <<"h", "i">>
Yo == <<"y", "o">>
Texts == {Hi, Yo}

Targets == {"fr", "de"}
Sources == {"en"}
\* the target languages of the batches sent to a Google translator
BatchTargets == {"fr"}

\* A Python argument: its type and what iterating it yields (for a str: the
\* one text it is).
Val(k, its) == [kind |-> k, items |-> its]

\* batches of distinct texts, in every order
Batches == {<<>>, <<Hi>>, <<Yo>>, <<Hi, Yo>>, <<Yo, Hi>>}

\* arguments for `text`
TextArgs ==
    {Val("str", <<t>>) : t \in Texts}
        \cup {Val("int", <<>>), Val("list", <<Hi>>)}

\* arguments for `strings`
ListArgs == {Val("list", b) : b \in Batches}
StringsArgs ==
    ListArgs
        \cup {Val("tuple", <<Hi, Yo>>), Val("generator", <<Yo, Hi>>),
              Val("set", <<Yo>>), Val("str", <<Hi>>), Val("int", <<>>)}

\* isinstance(text, six.string_types)
IsStringType_always(v) == TRUE
IsStringType(v) == v.kind = "str"

\* isinstance(strings, collections.Iterable)
IsIterable(v) == v.kind \in {"str", "list", "tuple", "set", "generator"}

\* isinstance(strings, collections.MutableSequence)
IsMutableSequence_iterable(v) == IsIterable(v)
IsMutableSequence(v) == v.kind \in {"list"}

\* What a function hands back: a reference to a heap object, a str, None, or
\* nothing (it raised).
Ref(id) == [kind |-> "ref", id |-> id, text |-> <<>>]
Str(t) == [kind |-> "str", id |-> 0, text |-> t]
None == [kind |-> "None", id |-> 0, text |-> <<>>]
Raised == [kind |-> "raised", id |-> 0, text |-> <<>>]

\* ------------------------------------------------------------------- heap
\* the GoogleAPITranslatorService instances a caller constructs
GInst == {1, 2}
\* one list per Google instance, plus the generator and the list of one
\* GoSlate batch call
MaxObj == Cardinality(GInst) + 2
ObjIds == 1..MaxObj

Free == [kind |-> "free", items |-> <<>>, pos |-> 0]
List(its) == [kind |-> "list", items |-> its, pos |-> 0]
Generator(its) == [kind |-> "generator", items |-> its, pos |-> 0]

HasFree(h) == \E id \in ObjIds : h[id].kind = "free"
NewId(h) ==
    CHOOSE id \in ObjIds :
        /\ h[id].kind = "free"
        /\ \A j \in ObjIds : j < id => h[j].kind # "free"

IsPrefix(s, t) == Len(s) <= Len(t) /\ SubSeq(t, 1, Len(s)) = s

\* --------------------------------------------------------------- backends
\* The translation service: a deterministic, injective stub that is not the
\* identity (it tags the text with both languages).
Translation(t, tgt, src) == <<src, tgt>> \o t

\* One call of a backend client's translate().
Call(client, arg, tgt, src) ==
    [client |-> client, arg |-> arg, target |-> tgt, source |-> src]

\* goslate.Goslate.translate(text, target_language, source_language): a str
\* for a str, else a generator over the translations (nothing consumed yet).
GoslateTranslate(h, text, tgt, src) ==
    IF text.kind = "str"
    THEN [heap |-> h, val |-> Str(Translation(text.items[1], tgt, src))]
    ELSE LET g == NewId(h)
             out == [k \in 1..Len(text.items) |->
                        Translation(text.items[k], tgt, src)]
         IN [heap |-> [h EXCEPT ![g] = Generator(out)], val |-> Ref(g)]

\* translate.Client.translate(values, target_language=, source_language=):
\* one dict per value, in request order.  `lacks` is the position of an item
\* that comes back without "translatedText" (0: none does).
Item(ok, t) == [has |-> ok, translatedText |-> t]
ClientTranslate(values, tgt, src, lacks) ==
    [k \in 1..Len(values.items) |->
        IF k = lacks
        THEN Item(FALSE, <<>>)
        ELSE Item(TRUE, Translation(values.items[k], tgt, src))]

\* the same for a single value: one dict
ClientTranslateOne(value, tgt, src, lacks) ==
    IF lacks # 0
    THEN Item(FALSE, <<>>)
    ELSE Item(TRUE, Translation(IF value.items = <<>>
                                THEN <<>>
                                ELSE value.items[1], tgt, src))

\* how a backend call ends: it returns (for Google: possibly with the item
\* at the given position malformed) or raises
Reply(raises, lacks) == [raises |-> raises, lacks |-> lacks]
Replies(values) ==
    {Reply(FALSE, k) : k \in 0..Len(values.items)} \cup {Reply(TRUE, 0)}


\* The translate() calls one invocation makes: one, whether or not it raises
\* (no retry, no chunking).
ClientCalls_retry(client, arg, tgt, src, raises) ==
    IF raises
    THEN <<Call(client, arg, tgt, src), Call(client, arg, tgt, src)>>
    ELSE <<Call(client, arg, tgt, src)>>
ClientCalls(client, arg, tgt, src, raises) == <<Call(client, arg, tgt, src)>>

\* What a handler did: the heap it leaves, how it ended, what it returned,
\* the backend calls it made and what the backend handed back.
Done(h, outcome, ret, calls, backend) ==
    [heap |-> h, outcome |-> outcome, ret |-> ret, calls |-> calls,
     backend |-> backend]

\* ----------------------------------------------- GoSlateTranslatorService
\* __init__: goslate is None when the package is missing
GoSlateInitOutcome(available) ==
    IF available THEN "ok" ELSE "AssertionError"

GoSlateTranslateString(h, text, tgt, src, reply) ==
    IF ~IsStringType(text)
    THEN Done(h, "AssertionError", Raised, <<>>, Raised)
    ELSE LET calls == ClientCalls("goslate", text, tgt, src, reply.raises)
         IN IF reply.raises
            THEN Done(h, "BackendError", Raised, calls, Raised)
            ELSE LET r == GoslateTranslate(h, text, tgt, src)
                 IN Done(r.heap, "ok", r.val, calls, r.val)

\* [_ for _ in translations]: a new list of everything the iterable still
\* yields; a generator is left exhausted, a str yields its characters.
Comprehension(h, translations) ==
    IF translations.kind = "str"
    THEN LET l == NewId(h)
             chars == [k \in 1..Len(translations.text) |->
                          <<translations.text[k]>>]
         IN [heap |-> [h EXCEPT ![l] = List(chars)], val |-> Ref(l)]
    ELSE LET g == translations.id
             rest == SubSeq(h[g].items, h[g].pos + 1, Len(h[g].items))
             h1 == [h EXCEPT ![g].pos = Len(h[g].items)]
             l == NewId(h1)
         IN [heap |-> [h1 EXCEPT ![l] = List(rest)], val |-> Ref(l)]

\* return translations if optimized else [_ for _ in translations]
ReturnTranslations_swapped(h, translations, optimized) ==
    IF ~optimized
    THEN [heap |-> h, val |-> translations]
    ELSE Comprehension(h, translations)
ReturnTranslations(h, translations, optimized) ==
    IF optimized
    THEN [heap |-> h, val |-> translations]
    ELSE Comprehension(h, translations)

GoSlateTranslateStrings(h, strings, tgt, src, optimized, reply) ==
    IF ~IsIterable(strings)
    THEN Done(h, "AssertionError", Raised, <<>>, Raised)
    ELSE LET calls == ClientCalls("goslate", strings, tgt, src, reply.raises)
         IN IF reply.raises
            THEN Done(h, "BackendError", Raised, calls, Raised)
            ELSE LET t == GoslateTranslate(h, strings, tgt, src)
                     r == ReturnTranslations(t.heap, t.val, optimized)
                 IN Done(r.heap, "ok", r.val, calls, t.val)

\* --------------------------------------------- GoogleAPITranslatorService
\* the value of the AUTOTRANSLATE_GOOGLE_TRANSLATOR_SERVICE_CREDENTIALS_JSON
\* setting: not defined, {}, None, a mapping that is no service account, or
\* a service account
Settings == {"unset", "{}", "None", "malformed", "valid"}

\* getattr(settings, '...', {})
Getattr(setting) == IF setting = "unset" THEN "{}" ELSE setting

\* not json_acct_info
Falsy_none(v) == v = "None"
Falsy(v) == v \in {"{}", "None"}

NoInstance == [status |-> "none", translate_client |-> FALSE,
               translated_strings |-> 0]

\* __init__: `decoded` says that Credentials.from_service_account_info was
\* called, `built` that translate.Client was.
GoogleInit(h, setting) ==
    LET json_acct_info == Getattr(setting)
    IN IF Falsy(json_acct_info)
       THEN [heap |-> h, outcome |-> "ImproperlyConfigured",
             self |-> NoInstance, decoded |-> FALSE, built |-> FALSE]
       ELSE IF json_acct_info # "valid"
       THEN [heap |-> h, outcome |-> "ValueError",
             self |-> NoInstance, decoded |-> TRUE, built |-> FALSE]
       ELSE LET a == NewId(h)
            IN [heap |-> [h EXCEPT ![a] = List(<<>>)], outcome |-> "ok",
                self |-> [status |-> "live", translate_client |-> TRUE,
                          translated_strings |-> a],
                decoded |-> TRUE, built |-> TRUE]

GoogleTranslateString(h, self, text, tgt, src, reply) ==
    IF ~IsStringType(text)
    THEN Done(h, "AssertionError", Raised, <<>>, Raised)
    ELSE LET calls == ClientCalls("google", text, tgt, src, reply.raises)
         IN IF reply.raises
            THEN Done(h, "BackendError", Raised, calls, Raised)
            ELSE LET translation ==
                         ClientTranslateOne(text, tgt, src, reply.lacks)
                     \* translation.get("translatedText")
                     got == IF translation.has
                            THEN Str(translation.translatedText)
                            ELSE None
                 IN Done(h, "ok", got, calls, Raised)

\* self.translated_strings.extend(
\*     [translation["translatedText"] for translation in response])
\* The list is built in full before extend() runs: a KeyError leaves the
\* accumulator alone.
Extend_assign(h, acc, response) ==
    IF \E k \in 1..Len(response) : ~response[k].has
    THEN [heap |-> h, raised |-> TRUE]
    ELSE [heap |-> [h EXCEPT ![acc].items =
                       [k \in 1..Len(response) |-> response[k].translatedText]],
          raised |-> FALSE]
Extend_each(h, acc, response) ==
    LET bad == {k \in 1..Len(response) : ~response[k].has}
        n == IF bad = {}
             THEN Len(response)
             ELSE (CHOOSE k \in bad : \A j \in bad : k <= j) - 1
    IN [heap |-> [h EXCEPT ![acc].items =
                     @ \o [k \in 1..n |-> response[k].translatedText]],
        raised |-> bad # {}]
Extend(h, acc, response) ==
    IF \E k \in 1..Len(response) : ~response[k].has
    THEN [heap |-> h, raised |-> TRUE]
    ELSE [heap |-> [h EXCEPT ![acc].items =
                       @ \o [k \in 1..Len(response) |->
                                response[k].translatedText]],
          raised |-> FALSE]

\* return self.translated_strings
ReturnAccumulator_copy(h, acc) ==
    IF HasFree(h)
    THEN LET c == NewId(h)
         IN [heap |-> [h EXCEPT ![c] = List(h[acc].items)], val |-> Ref(c)]
    ELSE [heap |-> h, val |-> Ref(acc)]
ReturnAccumulator(h, acc) == [heap |-> h, val |-> Ref(acc)]

\* the body of translate_strings
GoogleStringsBody(h, self, strings, tgt, src, reply) ==
    IF ~IsMutableSequence(strings)
    THEN Done(h, "AssertionError", Raised, <<>>, Raised)
    ELSE LET calls == ClientCalls("google", strings, tgt, src, reply.raises)
         IN IF reply.raises
            THEN Done(h, "BackendError", Raised, calls, Raised)
            ELSE LET response ==
                         ClientTranslate(strings, tgt, src, reply.lacks)
                     e == Extend(h, self.translated_strings, response)
                     r == ReturnAccumulator(e.heap, self.translated_strings)
                 IN IF e.raised
                    THEN Done(e.heap, "KeyError", Raised, calls, Raised)
                    ELSE Done(r.heap, "ok", r.val, calls, Raised)

\* translate_strings(strings, target_language, source_language, optimized):
\* the body never reads `optimized`.
GoogleTranslateStrings_fresh(h, self, strings, tgt, src, optimized, reply) ==
    LET d == GoogleStringsBody(h, self, strings, tgt, src, reply)
    IN IF optimized /\ d.outcome = "ok" /\ HasFree(h)
       THEN LET c == NewId(h)
                n == Len(h[self.translated_strings].items)
                new == SubSeq(d.heap[self.translated_strings].items, n + 1,
                              Len(d.heap[self.translated_strings].items))
            IN [d EXCEPT !.heap = [h EXCEPT ![c] = List(new)],
                         !.ret = Ref(c)]
       ELSE d
GoogleTranslateStrings(h, self, strings, tgt, src, optimized, reply) ==
    GoogleStringsBody(h, self, strings, tgt, src, reply)

\* ----------------------------------------------------------------- caller
\* one pass of `for x in result`: what it yields and the heap it leaves
Iterate(h, v) ==
    IF v.kind = "str"
    THEN [heap |-> h,
          yielded |-> [k \in 1..Len(v.text) |-> <<v.text[k]>>]]
    ELSE LET o == h[v.id]
         IN IF o.kind = "generator"
            THEN [heap |-> [h EXCEPT ![v.id].pos = Len(o.items)],
                  yielded |-> SubSeq(o.items, o.pos + 1, Len(o.items))]
            ELSE [heap |-> h, yielded |-> o.items]


\* ------------------------------------------------------------------ state
VARIABLES
    heap,      \* the Python objects: lists and generators, by identity
    goslate,   \* the GoSlateTranslatorService instance: "none" or "live"
    google,    \* the GoogleAPITranslatorService instances' attributes
    last,      \* the latest call: its arguments and what it did
    held,      \* the caller's passes over the latest GoSlate batch result
    results,   \* per Google instance: the objects translate_strings returned
    expected   \* per Google instance: the translatedText values, in order, of
               \* its successful batches since it was constructed or the
               \* caller last emptied its accumulator

vars == <<heap, goslate, google, last, held, results, expected>>

NoArg == Val("-", <<>>)

Event(op, inst, arg, tgt, src, optimized, reply, d, before) ==
    [op |-> op, inst |-> inst, arg |-> arg, target |-> tgt, source |-> src,
     optimized |-> optimized, reply |-> reply, setting |-> "-",
     outcome |-> d.outcome,
     ret |-> d.ret, calls |-> d.calls, backend |-> d.backend,
     before |-> before, decoded |-> FALSE, built |-> FALSE]

InitEvent(op, inst, setting, outcome, decoded, built) ==
    [op |-> op, inst |-> inst, arg |-> NoArg, target |-> "-", source |-> "-",
     optimized |-> FALSE, reply |-> Reply(FALSE, 0), setting |-> setting,
     outcome |-> outcome,
     ret |-> Raised, calls |-> <<>>, backend |-> Raised,
     before |-> <<>>, decoded |-> decoded, built |-> built]

NoHeld == [niter |-> 0, yielded |-> <<>>]

\* The caller drops the previous GoSlate batch result when it goes on to the
\* next call: the generator and the list are collected.
Release(h, ev) ==
    LET ids == IF ev.op = "goslate.translate_strings"
               THEN {v.id : v \in {w \in {ev.ret, ev.backend} : w.kind = "ref"}}
               ELSE {}
    IN [id \in ObjIds |-> IF id \in ids THEN Free ELSE h[id]]

FreeCount(h) == Cardinality({id \in ObjIds : h[id].kind = "free"})

\* the accumulator of instance i
Acc(i) == heap[google[i].translated_strings].items

Init ==
    /\ heap = [id \in ObjIds |-> Free]
    /\ goslate = "none"
    /\ google = [i \in GInst |-> NoInstance]
    /\ last = InitEvent("start", 0, "-", "ok", FALSE, FALSE)
    /\ held = NoHeld
    /\ results = [i \in GInst |-> {}]
    /\ expected = [i \in GInst |-> <<>>]

\* ---------------------------------------------------------------- actions
\* GoSlateTranslatorService()
GoSlateConstruct ==
    /\ goslate = "none"
    /\ \E available \in BOOLEAN :
          LET outcome == GoSlateInitOutcome(available)
          IN /\ goslate' = IF outcome = "ok" THEN "live" ELSE "none"
             /\ last' = InitEvent("GoSlateTranslatorService", 0, "-", outcome,
                                  FALSE, FALSE)
    /\ heap' = Release(heap, last)
    /\ held' = NoHeld
    /\ UNCHANGED <<google, results, expected>>

\* service.translate_string(text, target_language, source_language)
GoSlateString ==
    /\ goslate = "live"
    /\ \E text \in TextArgs, tgt \in Targets, src \in Sources,
          reply \in {Reply(FALSE, 0), Reply(TRUE, 0)} :
          LET d == GoSlateTranslateString(Release(heap, last), text, tgt, src,
                                          reply)
          IN /\ heap' = d.heap
             /\ last' = Event("goslate.translate_string", 0, text, tgt, src,
                              FALSE, reply, d, <<>>)
    /\ held' = NoHeld
    /\ UNCHANGED <<goslate, google, results, expected>>

\* service.translate_strings(strings, target_language, source_language,
\*                           optimized)
GoSlateStrings ==
    /\ goslate = "live"
    /\ FreeCount(Release(heap, last)) >= 2
    /\ \E strings \in StringsArgs, tgt \in Targets, src \in Sources,
          optimized \in BOOLEAN, reply \in {Reply(FALSE, 0), Reply(TRUE, 0)} :
          LET d == GoSlateTranslateStrings(Release(heap, last), strings, tgt,
                                           src, optimized, reply)
          IN /\ heap' = d.heap
             /\ last' = Event("goslate.translate_strings", 0, strings, tgt,
                              src, optimized, reply, d, <<>>)
    /\ held' = NoHeld
    /\ UNCHANGED <<goslate, google, results, expected>>

\* GoogleAPITranslatorService()
GoogleConstruct(i) ==
    /\ google[i].status = "none"
    /\ HasFree(Release(heap, last))
    /\ \E setting \in Settings :
          LET c == GoogleInit(Release(heap, last), setting)
          IN /\ heap' = c.heap
             /\ google' = [google EXCEPT ![i] = c.self]
             /\ last' = InitEvent("GoogleAPITranslatorService", i, setting,
                                  c.outcome, c.decoded, c.built)
    /\ held' = NoHeld
    /\ UNCHANGED <<goslate, results, expected>>

\* service.translate_string(text, target_language, source_language)
GoogleString(i) ==
    /\ google[i].status = "live"
    /\ \E text \in TextArgs, tgt \in Targets, src \in Sources,
          reply \in {Reply(FALSE, 0), Reply(FALSE, 1), Reply(TRUE, 0)} :
          LET d == GoogleTranslateString(Release(heap, last), google[i], text,
                                         tgt, src, reply)
          IN /\ heap' = d.heap
             /\ last' = Event("google.translate_string", i, text, tgt, src,
                              FALSE, reply, d, Acc(i))
    /\ held' = NoHeld
    /\ UNCHANGED <<goslate, google, results, expected>>

\* service.translate_strings(strings, target_language, source_language,
\*                           optimized)
GoogleStrings(i, args) ==
    /\ google[i].status = "live"
    /\ \E strings \in args, tgt \in BatchTargets, src \in Sources,
          optimized \in BOOLEAN :
       \E reply \in Replies(strings) :
          LET d == GoogleTranslateStrings(Release(heap, last), google[i],
                                          strings, tgt, src, optimized, reply)
              response == ClientTranslate(strings, tgt, src, reply.lacks)
          IN /\ Len(d.heap[google[i].translated_strings].items) <= MaxAcc
             /\ heap' = d.heap
             /\ last' = Event("google.translate_strings", i, strings, tgt,
                              src, optimized, reply, d, Acc(i))
             /\ results' =
                    IF d.ret.kind = "ref"
                    THEN [results EXCEPT ![i] = @ \cup {d.ret.id}]
                    ELSE results
             /\ expected' =
                    IF d.outcome = "ok"
                    THEN [expected EXCEPT ![i] =
                             @ \o [k \in 1..Len(response) |->
                                      response[k].translatedText]]
                    ELSE expected
    /\ held' = NoHeld
    /\ UNCHANGED <<goslate, google>>

\* for x in result: ...   (over the latest GoSlate batch result)
CallerIterate ==
    /\ last.op = "goslate.translate_strings"
    /\ last.outcome = "ok"
    /\ held.niter < MaxIter
    /\ LET it == Iterate(heap, last.ret)
       IN /\ heap' = it.heap
          /\ held' = [niter |-> held.niter + 1, yielded |-> it.yielded]
    /\ UNCHANGED <<goslate, google, last, results, expected>>

\* del result[:]   (on a list some translate_strings call of instance i
\* returned)
CallerClear(i) ==
    /\ \E r \in results[i] :
          /\ heap[r].items # <<>>
          /\ heap' = [Release(heap, last) EXCEPT ![r].items = <<>>]
          /\ expected' = [j \in GInst |->
                             IF google[j].translated_strings = r
                             THEN <<>>
                             ELSE expected[j]]
          /\ last' = [InitEvent("del result[:]", i, "-", "ok", FALSE, FALSE)
                         EXCEPT !.ret = Ref(r)]
    /\ held' = NoHeld
    /\ UNCHANGED <<goslate, google, results>>

\* A caller with one translator of each class.
Primary == {1}
Next ==
    \/ GoSlateConstruct
    \/ GoSlateString
    \/ GoSlateStrings
    \/ CallerIterate
    \/ \E i \in Primary : GoogleConstruct(i)
    \/ \E i \in Primary : GoogleString(i)
    \/ \E i \in Primary : GoogleStrings(i, StringsArgs)
    \/ \E i \in Primary : CallerClear(i)

Spec == Init /\ [][Next]_vars

\* A caller with several Google translators, translating batches.
NextInstances ==
    \/ \E i \in GInst : GoogleConstruct(i)
    \/ \E i \in GInst : GoogleStrings(i, ListArgs)
    \/ \E i \in GInst : CallerClear(i)

SpecInstances == Init /\ [][NextInstances]_vars

\* ----------------------------------------------------------------- claims
StringsOps == {"goslate.translate_strings", "google.translate_strings"}
StringOps == {"goslate.translate_string", "google.translate_string"}
ClientOf(op) ==
    IF op \in {"goslate.translate_string", "goslate.translate_strings"}
    THEN "goslate"
    ELSE "google"

\* the elements of a returned list or generator
Elements(v) == heap[v.id].items

\* the translations of a batch, position for position
TranslationsOf(ev) ==
    [k \in 1..Len(ev.arg.items) |->
        Translation(ev.arg.items[k], ev.target, ev.source)]

\* C1: every successful translate_strings call of either translator on an
\* ordered sequence of strings, optimized or not, after any earlier calls,
\* returns a sequence whose i-th element is the translation of the i-th
\* input string.
C1_PositionForPosition ==
    (/\ last.op \in StringsOps
     /\ last.outcome = "ok"
     /\ last.arg.kind \in {"list", "tuple"})
        => /\ last.ret.kind = "ref"
           /\ \A k \in 1..Len(last.arg.items) :
                 /\ k <= Len(Elements(last.ret))
                 /\ Elements(last.ret)[k] = TranslationsOf(last)[k]

C3_NonStringRejected ==
    (last.op \in StringOps /\ last.arg.kind # "str")
        => /\ last.outcome = "AssertionError"
           /\ last.calls = <<>>

C3_Witness ==
    /\ last.op = "google.translate_string"
    /\ last.arg.kind = "int"
    /\ last.outcome = "AssertionError"
    /\ goslate = "live"

\* C4: translate_strings fails with an AssertionError and makes no backend
\* call when the GoSlate translator is given a non-iterable and when the
\* Google translator is given anything but a mutable sequence (a generator,
\* a set, a tuple, a str, an int).
C4_NonSequenceRejected ==
    /\ (/\ last.op = "goslate.translate_strings"
        /\ last.arg.kind \notin {"str", "list", "tuple", "set", "generator"})
          => (last.outcome = "AssertionError" /\ last.calls = <<>>)
    /\ (last.op = "google.translate_strings" /\ last.arg.kind # "list")
          => (last.outcome = "AssertionError" /\ last.calls = <<>>)

C4_Witness ==
    /\ last.op = "google.translate_strings"
    /\ last.arg.kind = "generator"
    /\ last.outcome = "AssertionError"
    /\ last.calls = <<>>

\* C5: constructing a Google translator while the credentials setting is
\* not defined or empty fails with ImproperlyConfigured before credentials
\* are decoded or a client is built: the instance has no client and no
\* accumulator, no list was created and no backend call was made.
C5_MissingCredentials ==
    (/\ last.op = "GoogleAPITranslatorService"
     /\ last.setting \in {"unset", "{}"})
        => /\ last.outcome = "ImproperlyConfigured"
           /\ ~last.decoded
           /\ ~last.built
           /\ last.calls = <<>>
           /\ google[last.inst] = NoInstance
           /\ \A id \in ObjIds :
                 heap[id].kind # "free"
                    => \E j \in GInst : /\ google[j].status = "live"
                                        /\ google[j].translated_strings = id

C5_Witness ==
    /\ last.op = "GoogleAPITranslatorService"
    /\ last.setting = "unset"
    /\ last.outcome = "ImproperlyConfigured"

\* C6: GoSlate translate_strings with optimized=False returns a new list
\* holding every element of the backend's lazy sequence, which it has
\* consumed to the end, and every pass over that list yields the same
\* elements; with optimized=True it returns the backend's lazy sequence
\* itself, nothing consumed.
C6_LazyOrMaterialized ==
    (last.op = "goslate.translate_strings" /\ last.outcome = "ok")
        => IF last.optimized
           THEN /\ last.ret = last.backend
                /\ (last.ret.kind = "ref" /\ held.niter = 0)
                      => /\ heap[last.ret.id].kind = "generator"
                         /\ heap[last.ret.id].pos = 0
                         /\ Elements(last.ret) = TranslationsOf(last)
           ELSE /\ last.ret.kind = "ref"
                /\ last.ret # last.backend
                /\ heap[last.ret.id].kind = "list"
                /\ last.backend.kind = "ref"
                      => /\ heap[last.backend.id].kind = "generator"
                         /\ heap[last.backend.id].pos
                               = Len(heap[last.backend.id].items)
                         /\ Elements(last.ret) = Elements(last.backend)
                         /\ Elements(last.ret) = TranslationsOf(last)
                /\ held.niter >= 1 => held.yielded = Elements(last.ret)

C6_Witness ==
    /\ last.op = "goslate.translate_strings"
    /\ last.outcome = "ok"
    /\ ~last.optimized
    /\ last.arg.kind = "list"
    /\ Len(last.arg.items) = 2
    /\ held.niter = 2
    /\ held.yielded = TranslationsOf(last)

C8_OneBackendCall ==
    (\/ last.op \in StringOps /\ last.arg.kind = "str"
     \/ /\ last.op = "goslate.translate_strings"
        /\ last.arg.kind \in {"str", "list", "tuple", "set", "generator"}
     \/ last.op = "google.translate_strings" /\ last.arg.kind = "list")
        => /\ last.calls = <<Call(ClientOf(last.op), last.arg, last.target,
                                  last.source)>>
           /\ last.outcome # "AssertionError"

C8_Witness ==
    /\ last.op = "google.translate_strings"
    /\ last.outcome = "BackendError"
    /\ Len(last.arg.items) = 2
    /\ Len(last.calls) = 1

\* C9: a failed Google translate_strings call (input check, backend error or
\* a response item without translatedText) leaves the accumulator as it was;
\* translate_string never changes it.
C9_FailureLeavesAccumulator ==
    /\ (last.op = "google.translate_strings" /\ last.outcome # "ok")
          => Acc(last.inst) = last.before
    /\ last.op = "google.translate_string" => Acc(last.inst) = last.before

C9_Witness ==
    /\ last.op = "google.translate_strings"
    /\ last.outcome = "KeyError"
    /\ last.reply.lacks = 2
    /\ last.before # <<>>
    /\ Acc(last.inst) = last.before

====
